---- MODULE Spec2Model ----
(***************************************************************************)
(* llmwrap: describe a shell task, fetch one command from the Responses    *)
(* API, ask for confirmation, run it with `sh -c`.                         *)
(*                                                                         *)
(* Text is a sequence of characters.  A character is a one-element string; *)
(* the characters the lexer cannot hold in a literal are named below.      *)
(***************************************************************************)
EXTENDS Integers, Sequences, FiniteSets, TLC

VARIABLES
    pc,            \* position in main
    argv,          \* the command line handed to Cli::parse
    stdin,         \* what the next read_line on stdin will deliver
    description,   \* main: cli.prompt.join(" ")
    keyLookups,    \* number of reads of LLMWRAP_OPENAI_API_KEY
    httpRequests,  \* number of POSTs sent by fetch_command
    value,         \* fetch_command: the decoded response body (parsed)
    raw_text,      \* fetch_command: extract_text(&parsed), an Option
    command_text,  \* main: the sanitized command
    resanitized,   \* sanitize_command applied to command_text (pure-function check)
    confirmCalls,  \* number of calls of confirm_run
    input,         \* confirm_run: the line read
    decision,      \* confirm_run's Ok value: "none" until it returned, then "yes"/"no"
    execCalls,     \* number of calls of run_command
    status,        \* run_command: outcome of Command::status()
    exitCode,      \* the process exit code, -1 while the process runs
    failure        \* which fatal condition ended the run, "none" if none

vars == <<pc, argv, stdin, description, keyLookups, httpRequests, value, raw_text,
          command_text, resanitized, confirmCalls, input, decision, execCalls,
          status, exitCode, failure>>

-----------------------------------------------------------------------------
(* Bounds of the model *)

MaxLen == 4        \* longest raw text handed to sanitize_command
MaxLine == 3       \* longest confirmation line, its line terminator not counted
MaxArgs == 2       \* most positional arguments on the command line
MaxMsgs == 2       \* most messages in an "output" list
MaxParts == 2      \* most parts in a "content" list
MaxTexts == 2      \* most elements in an "output_text" list

-----------------------------------------------------------------------------
(* Characters and text *)

SPACE == " "
TAB == "tab"
NEWLINE == "nl"
CR == "cr"
BACKTICK == "bt"

SeqsUpTo(S, n) == UNION {[1..k -> S] : k \in 0..n}

\* char::is_whitespace, on the characters of the model
Whitespace == {SPACE, TAB, NEWLINE, CR}
IsWhitespace(c) == c \in Whitespace

\* str::trim_matches(pred): drops the longest prefix and the longest suffix
\* whose characters all match the pattern, here a set of characters
TrimWhere(s, drop) ==
    LET keep == {i \in 1..Len(s) : s[i] \notin drop}
    IN  IF keep = {} THEN <<>>
        ELSE LET lo == CHOOSE i \in keep : \A j \in keep : i <= j
                 hi == CHOOSE i \in keep : \A j \in keep : j <= i
             IN  SubSeq(s, lo, hi)

\* str::trim
Trim(s) == TrimWhere(s, Whitespace)

\* Mutant: only one character is taken from each end
TrimMatchesOneLayer(s, ch) ==
    LET a == IF s # <<>> /\ Head(s) = ch THEN Tail(s) ELSE s
    IN  IF a # <<>> /\ a[Len(a)] = ch THEN SubSeq(a, 1, Len(a) - 1) ELSE a

\* str::trim_matches(ch) for a single character
TrimMatches(s, ch) == TrimWhere(s, {ch})

\* Mutant: the whole text is taken, line breaks included
FirstLineWhole(raw) == raw

\* raw.lines().next().unwrap_or(raw): the text before the first "\n", without
\* the "\r" of a "\r\n"; a text with no line at all (the empty text) is kept
FirstLine(raw) ==
    LET nls == {i \in 1..Len(raw) : raw[i] = NEWLINE}
    IN  IF nls = {} THEN raw
        ELSE LET nl == CHOOSE i \in nls : \A j \in nls : i <= j
                 line == SubSeq(raw, 1, nl - 1)
             IN  IF line # <<>> /\ line[Len(line)] = CR
                 THEN SubSeq(line, 1, Len(line) - 1)
                 ELSE line

sanitize_command(raw) == Trim(TrimMatches(Trim(FirstLine(raw)), BACKTICK))

\* slice::join(sep) over texts
RECURSIVE Join(_, _)
Join(texts, sep) ==
    IF texts = <<>> THEN <<>>
    ELSE IF Len(texts) = 1 THEN texts[1]
    ELSE texts[1] \o sep \o Join(Tail(texts), sep)

-----------------------------------------------------------------------------
(* Option *)

None == <<>>
Some(x) == <<x>>

-----------------------------------------------------------------------------
(* serde_json::Value.  Absent marks a key an object does not hold; an      *)
(* object is its four keys the program ever looks up.                       *)

Absent == [t |-> "absent"]
JNull == [t |-> "null"]
JNumber == [t |-> "number"]
JString(s) == [t |-> "string", s |-> s]
JArray(e) == [t |-> "array", e |-> e]
JObject(output, output_text, content, text) ==
    [t |-> "object",
     f |-> [output |-> output, output_text |-> output_text,
            content |-> content, text |-> text]]

\* Value::get(key): Some only on an object that holds the key
Get(v, key) ==
    IF v.t = "object" /\ v.f[key] # Absent THEN Some(v.f[key]) ELSE None

\* v.get(key).and_then(|x| x.as_array())
GetArray(v, key) ==
    LET g == Get(v, key)
    IN  IF g # None /\ g[1].t = "array" THEN Some(g[1].e) ELSE None

\* v.get(key).and_then(|x| x.as_object())
GetObject(v, key) ==
    LET g == Get(v, key)
    IN  IF g # None /\ g[1].t = "object" THEN g ELSE None

\* v.get(key).and_then(|x| x.as_str())
GetStr(v, key) ==
    LET g == Get(v, key)
    IN  IF g # None /\ g[1].t = "string" THEN Some(g[1].s) ELSE None

\* Mutant: only the first content part is looked at
FirstPartTextHeadOnly(contents) ==
    IF contents = <<>> THEN None ELSE GetStr(contents[1], "text")

\* for c in contents { if let Some(text) = c.get("text").as_str() { return } }
FirstPartText(contents) ==
    LET hits == {j \in 1..Len(contents) : GetStr(contents[j], "text") # None}
    IN  IF hits = {} THEN None
        ELSE GetStr(contents[CHOOSE j \in hits : \A k \in hits : j <= k], "text")

\* if let Some(contents) = msg.get("content").as_array() { ... }
MessageText(msg) ==
    LET contents == GetArray(msg, "content")
    IN  IF contents = None THEN None ELSE FirstPartText(contents[1])

\* for msg in outputs { ... }
OutputListText(outputs) ==
    LET hits == {i \in 1..Len(outputs) : MessageText(outputs[i]) # None}
    IN  IF hits = {} THEN None
        ELSE MessageText(outputs[CHOOSE i \in hits : \A k \in hits : i <= k])

\* arr.iter().filter_map(|v| v.as_str()).collect::<Vec<_>>()
StrElements(arr) ==
    LET IsStr(v) == v.t = "string"
        strs == SelectSeq(arr, IsStr)
    IN  [i \in 1..Len(strs) |-> strs[i].s]

\* Mutant: the elements are joined with nothing between them
JoinedTextNoSeparator(arr) == Join(StrElements(arr), <<>>)

\* the `joined` of extract_text
JoinedText(arr) == Join(StrElements(arr), <<NEWLINE>>)

\* Mutant: "output_text" is consulted before "output"
extract_text_output_text_first(v) ==
    LET text == GetStr(v, "output_text")
        outputs == GetArray(v, "output")
        fromList == IF outputs = None THEN None ELSE OutputListText(outputs[1])
    IN  IF text # None THEN text ELSE fromList

extract_text(v) ==
    LET outputs == GetArray(v, "output")
        fromList == IF outputs = None THEN None ELSE OutputListText(outputs[1])
        msg == GetObject(v, "output")
        fromObject == IF msg = None THEN None ELSE MessageText(msg[1])
        text == GetStr(v, "output_text")
        arr == GetArray(v, "output_text")
        joined == IF arr = None THEN <<>> ELSE JoinedText(arr[1])
    IN  IF fromList # None THEN fromList
        ELSE IF fromObject # None THEN fromObject
        ELSE IF text # None THEN text
        ELSE IF arr # None /\ joined # <<>> THEN Some(joined)
        ELSE None

-----------------------------------------------------------------------------
(* confirm_run *)

\* Mutant: the characters are compared as typed
ToLowercaseIdentity(s) == s

\* str::to_lowercase, on the characters of the model
ToLowercase(s) ==
    LET Lower(c) == CASE c = "Y" -> "y" [] c = "E" -> "e" [] c = "S" -> "s"
                      [] c = "N" -> "n" [] c = "O" -> "o" [] OTHER -> c
    IN  [i \in 1..Len(s) |-> Lower(s[i])]

\* Mutant: an empty answer counts as yes
confirm_run_default_yes(line) ==
    LET d == ToLowercase(Trim(line))
    IN  d = <<>> \/ d = <<"y">> \/ d = <<"y", "e", "s">>

\* the Ok value of confirm_run for the line read_line delivered
confirm_run(line) ==
    LET d == ToLowercase(Trim(line))
    IN  d = <<"y">> \/ d = <<"y", "e", "s">>

-----------------------------------------------------------------------------
(* main, one action per step between two effects *)

\* main, line 59: description.trim().is_empty(), without the trim (mutant)
DescriptionMissingUntrimmed(d) == d = <<>>

\* main, line 59: description.trim().is_empty()
DescriptionMissing(d) == Trim(d) = <<>>

\* Mutant: the shell's exit status is not looked at
run_command_ignoring_status(st) ==
    IF st = "spawn_failed" THEN "spawn" ELSE "none"

\* run_command: the error it returns for an outcome of Command::status()
run_command(st) ==
    IF st = "spawn_failed" THEN "spawn"
    ELSE IF st # "success" THEN "exit_status"
    ELSE "none"

\* The exit code of the process: 0 when main returns Ok or clap prints help or
\* the version, 1 when main returns Err, 2 when clap rejects the command line
ExitCodeOf(f) == IF f = "none" THEN 0 ELSE IF f = "arguments" THEN 2 ELSE 1

\* The run ends, with failure f or with none
Exit(f) ==
    /\ pc' = "done"
    /\ failure' = f
    /\ exitCode' = ExitCodeOf(f)

\* Cli::parse() and the join of the positional arguments
ParseArgs ==
    /\ pc = "parse"
    /\ \/ /\ argv.kind \in {"help", "version"}
          /\ Exit("none")
          /\ UNCHANGED description
       \/ /\ argv.kind = "invalid"
          /\ Exit("arguments")
          /\ UNCHANGED description
       \/ /\ argv.kind = "args"
          /\ description' = Join(argv.prompt, <<SPACE>>)
          /\ pc' = "check_description"
          /\ UNCHANGED <<failure, exitCode>>
    /\ UNCHANGED <<argv, stdin, keyLookups, httpRequests, value, raw_text,
                   command_text, resanitized, confirmCalls, input, decision,
                   execCalls, status>>

CheckDescription ==
    /\ pc = "check_description"
    /\ IF DescriptionMissing(description)
       THEN Exit("usage")
       ELSE pc' = "read_key" /\ UNCHANGED <<failure, exitCode>>
    /\ UNCHANGED <<argv, stdin, description, keyLookups, httpRequests, value,
                   raw_text, command_text, resanitized, confirmCalls, input,
                   decision, execCalls, status>>

\* std::env::var("LLMWRAP_OPENAI_API_KEY")
ReadApiKey ==
    /\ pc = "read_key"
    /\ keyLookups' = keyLookups + 1
    /\ \/ Exit("credential")
       \/ pc' = "build_client" /\ UNCHANGED <<failure, exitCode>>
    /\ UNCHANGED <<argv, stdin, description, httpRequests, value, raw_text,
                   command_text, resanitized, confirmCalls, input, decision,
                   execCalls, status>>

\* Client::builder().build()?
BuildClient ==
    /\ pc = "build_client"
    /\ \/ Exit("client")
       \/ pc' = "send" /\ UNCHANGED <<failure, exitCode>>
    /\ UNCHANGED <<argv, stdin, description, keyLookups, httpRequests, value,
                   raw_text, command_text, resanitized, confirmCalls, input,
                   decision, execCalls, status>>

\* fetch_command: the POST, .send().await? and .error_for_status()?
SendRequest ==
    /\ pc = "send"
    /\ httpRequests' = httpRequests + 1
    /\ \/ Exit("transport")
       \/ Exit("http_status")
       \/ pc' = "read_body" /\ UNCHANGED <<failure, exitCode>>
    /\ UNCHANGED <<argv, stdin, description, keyLookups, value, raw_text,
                   command_text, resanitized, confirmCalls, input, decision,
                   execCalls, status>>

\* fetch_command: response.text().await?
ReadBody ==
    /\ pc = "read_body"
    /\ \/ Exit("body_read")
       \/ pc' = "decode" /\ UNCHANGED <<failure, exitCode>>
    /\ UNCHANGED <<argv, stdin, description, keyLookups, httpRequests, value,
                   raw_text, command_text, resanitized, confirmCalls, input,
                   decision, execCalls, status>>

\* The text of message i, part j of a generated document
Digits == <<"0", "1", "2", "3", "4", "5">>
PartTextAt(i, j) == <<Digits[i + 1], Digits[j + 1]>>

\* The text of element k of a generated "output_text" list
Letters == <<"a", "b", "c", "d", "e">>

\* The response bodies the server of the whole-run model answers with
ScenarioDocs ==
    LET part(t) == JObject(Absent, Absent, Absent, t)
        msg(c) == JObject(Absent, Absent, c, Absent)
    IN  { JObject(JArray(<<msg(JArray(<<part(JString(<<"l", "s", NEWLINE>>))>>))>>),
                  Absent, Absent, Absent),
          JObject(JArray(<<msg(JArray(<<part(Absent), part(JString(<<"l", "s">>))>>))>>),
                  JString(<<"p", "s">>), Absent, Absent),
          JObject(Absent, JString(<<BACKTICK, "l", "s", BACKTICK>>), Absent, Absent),
          JObject(Absent, JArray(<<JString(<<"a">>), JString(<<"b">>)>>), Absent, Absent),
          JObject(Absent, Absent, Absent, Absent) }

\* fetch_command: serde_json::from_str(&body_text)
Decode ==
    /\ pc = "decode"
    /\ \/ Exit("decoding") /\ UNCHANGED value
       \/ /\ value' \in ScenarioDocs
          /\ pc' = "extract"
          /\ UNCHANGED <<failure, exitCode>>
    /\ UNCHANGED <<argv, stdin, description, keyLookups, httpRequests, raw_text,
                   command_text, resanitized, confirmCalls, input, decision,
                   execCalls, status>>

\* fetch_command: extract_text, its error, sanitize_command; main prints the
\* proposed command
Extract ==
    /\ pc = "extract"
    /\ raw_text' = extract_text(value)
    /\ IF raw_text' = None
       THEN Exit("extraction") /\ UNCHANGED command_text
       ELSE /\ command_text' = sanitize_command(raw_text'[1])
            /\ pc' = "confirm"
            /\ UNCHANGED <<failure, exitCode>>
    /\ UNCHANGED <<argv, stdin, description, keyLookups, httpRequests, value,
                   resanitized, confirmCalls, input, decision, execCalls, status>>

\* main: confirm_run()? and the return on a decline
ConfirmRun ==
    /\ pc = "confirm"
    /\ confirmCalls' = confirmCalls + 1
    /\ IF stdin.err
       THEN Exit("confirm_io") /\ UNCHANGED <<input, decision>>
       ELSE /\ input' = stdin.line
            /\ IF confirm_run(stdin.line)
               THEN /\ decision' = "yes"
                    /\ pc' = "run"
                    /\ UNCHANGED <<failure, exitCode>>
               ELSE /\ decision' = "no"
                    /\ Exit("none")
    /\ UNCHANGED <<argv, stdin, description, keyLookups, httpRequests, value,
                   raw_text, command_text, resanitized, execCalls, status>>

\* main: run_command(&command_text)?
RunCommand ==
    /\ pc = "run"
    /\ execCalls' = execCalls + 1
    /\ \E st \in {"spawn_failed", "nonzero", "success"} :
          /\ status' = st
          /\ Exit(run_command(st))
    /\ UNCHANGED <<argv, stdin, description, keyLookups, httpRequests, value,
                   raw_text, command_text, resanitized, confirmCalls, input,
                   decision>>

\* sanitize_command on a raw text
SanitizeOnce ==
    /\ pc = "sanitize"
    /\ command_text' = sanitize_command(raw_text[1])
    /\ pc' = "sanitize_again"
    /\ UNCHANGED <<argv, stdin, description, keyLookups, httpRequests, value,
                   raw_text, resanitized, confirmCalls, input, decision,
                   execCalls, status, exitCode, failure>>

\* sanitize_command on its own result
SanitizeAgain ==
    /\ pc = "sanitize_again"
    /\ resanitized' = sanitize_command(command_text)
    /\ pc' = "sanitized"
    /\ UNCHANGED <<argv, stdin, description, keyLookups, httpRequests, value,
                   raw_text, command_text, confirmCalls, input, decision,
                   execCalls, status, exitCode, failure>>

-----------------------------------------------------------------------------
(* Inputs *)

ArgWords == {<<>>, <<SPACE>>, <<"l", "s">>}

CommandLines ==
    {[kind |-> "args", prompt |-> p] : p \in SeqsUpTo(ArgWords, MaxArgs)}
    \cup {[kind |-> k, prompt |-> <<>>] : k \in {"help", "version", "invalid"}}

\* read_line delivers the characters up to and including the first line feed,
\* or up to the end of the input
LinesOver(chars, n) ==
    {body \o term : body \in SeqsUpTo(chars, n), term \in {<<>>, <<NEWLINE>>}}

ScenarioStdin ==
    {[err |-> TRUE, line |-> <<>>]}
    \cup {[err |-> FALSE, line |-> l] :
            l \in { <<"y", NEWLINE>>, <<"Y", "E", "S", NEWLINE>>, <<SPACE, "y", "e", "s">>,
                    <<"n", NEWLINE>>, <<NEWLINE>>, <<>>, <<"y", "e", NEWLINE>> }}

ConfirmChars == {"y", "Y", "e", "E", "s", "S", "n", "o", SPACE}

SanitizeChars == {"a", SPACE, BACKTICK, NEWLINE, CR}

\* Generated response documents: every shape of "output" with "output_text"
\* absent or a string, and every shape of "output_text" with an "output" that
\* yields nothing
PartsAt(i, j) ==
    { JObject(Absent, Absent, Absent, JString(PartTextAt(i, j))),
      JObject(Absent, Absent, Absent, JNumber) }

\* The content lists of n parts of message i
RECURSIVE ContentListsOfLen(_, _)
ContentListsOfLen(i, n) ==
    IF n = 0 THEN {<<>>}
    ELSE {Append(c, p) : c \in ContentListsOfLen(i, n - 1), p \in PartsAt(i, n)}

ContentListsAt(i) == UNION {ContentListsOfLen(i, n) : n \in 0..MaxParts}

MessagesAt(i) ==
    {JObject(Absent, Absent, JArray(c), Absent) : c \in ContentListsAt(i)}
    \cup { JObject(Absent, Absent, Absent, Absent),
           JObject(Absent, Absent, JString(<<"x">>), Absent),
           JObject(Absent, Absent, JArray(<<JObject(Absent, Absent, Absent, Absent)>>), Absent),
           JObject(Absent, Absent, JArray(<<JNull>>), Absent) }

\* The "output" lists of n messages
RECURSIVE OutputListsOfLen(_)
OutputListsOfLen(n) ==
    IF n = 0 THEN {<<>>}
    ELSE {Append(l, m) : l \in OutputListsOfLen(n - 1), m \in MessagesAt(n)}

OutputLists == UNION {OutputListsOfLen(n) : n \in 0..MaxMsgs}

OutputValues ==
    {JArray(m) : m \in OutputLists} \cup MessagesAt(0) \cup {Absent, JString(<<"x">>)}

TextElementsAt(k) == {JString(<<Letters[k]>>), JString(<<>>), JNull}

\* The "output_text" lists of n elements
RECURSIVE OutputTextListsOfLen(_)
OutputTextListsOfLen(n) ==
    IF n = 0 THEN {<<>>}
    ELSE {Append(l, e) : l \in OutputTextListsOfLen(n - 1), e \in TextElementsAt(n)}

OutputTextLists == UNION {OutputTextListsOfLen(n) : n \in 0..MaxTexts}

OutputTextValues ==
    {JArray(e) : e \in OutputTextLists} \cup {Absent, JNull, JString(<<"t">>), JString(<<>>)}

Documents ==
    {JObject(o, ot, Absent, Absent) :
        o \in OutputValues,
        ot \in {Absent, JString(<<"t">>), JArray(<<JString(<<"a">>), JString(<<"b">>)>>)}}
    \cup {JObject(o, ot, Absent, Absent) :
            o \in {Absent, JArray(<<>>), JNumber,
                   JArray(<<JObject(Absent, Absent, Absent, Absent)>>),
                   JObject(Absent, Absent, JArray(<<JNull>>), Absent)},
            ot \in OutputTextValues}
    \cup {JNull, JArray(<<>>)}

-----------------------------------------------------------------------------
(* Specifications *)

\* The state at position p with the given inputs and nothing done yet
StateAt(p, a, si, d, v, raw, cmd, keys, posts) ==
    /\ pc = p
    /\ argv = a
    /\ stdin = si
    /\ description = d
    /\ keyLookups = keys
    /\ httpRequests = posts
    /\ value = v
    /\ raw_text = raw
    /\ command_text = cmd
    /\ resanitized = <<>>
    /\ confirmCalls = 0
    /\ input = <<>>
    /\ decision = "none"
    /\ execCalls = 0
    /\ status = "none"
    /\ exitCode = -1
    /\ failure = "none"

\* The whole run
Init ==
    \E a \in CommandLines, si \in ScenarioStdin :
        StateAt("parse", a, si, <<>>, Absent, None, <<>>, 0, 0)

Next ==
    \/ ParseArgs
    \/ CheckDescription
    \/ ReadApiKey
    \/ BuildClient
    \/ SendRequest
    \/ ReadBody
    \/ Decode
    \/ Extract
    \/ ConfirmRun
    \/ RunCommand

Spec == Init /\ [][Next]_vars

LsCommandLine == [kind |-> "args", prompt |-> <<<<"l", "s">>>>]

\* sanitize_command on every raw text of the bound
InitSanitize ==
    \E raw \in SeqsUpTo(SanitizeChars, MaxLen) :
        StateAt("sanitize", LsCommandLine, [err |-> FALSE, line |-> <<>>],
                <<"l", "s">>, Absent, Some(raw), <<>>, 1, 1)

NextSanitize == SanitizeOnce \/ SanitizeAgain

SpecSanitize == InitSanitize /\ [][NextSanitize]_vars

\* fetch_command from the decoded body on, on every generated document
InitExtract ==
    \E v \in Documents :
        StateAt("extract", LsCommandLine, [err |-> FALSE, line |-> <<>>],
                <<"l", "s">>, v, None, <<>>, 1, 1)

NextExtract == Extract

SpecExtract == InitExtract /\ [][NextExtract]_vars

\* confirm_run on every line of the bound
InitConfirm ==
    \E l \in LinesOver(ConfirmChars, MaxLine) :
        StateAt("confirm", LsCommandLine, [err |-> FALSE, line |-> l],
                <<"l", "s">>, JObject(Absent, JString(<<"l", "s">>), Absent, Absent),
                Some(<<"l", "s">>), <<"l", "s">>, 1, 1)

NextConfirm == ConfirmRun

SpecConfirm == InitConfirm /\ [][NextConfirm]_vars

-----------------------------------------------------------------------------
(* What the claims speak of, stated without the operators of the model *)

Range(s) == {s[i] : i \in 1..Len(s)}

SubSeqs(s) == {SubSeq(s, a, b) : a \in 1..(Len(s) + 1), b \in 0..Len(s)}

\* r is s without its longest prefix and its longest suffix of characters in P
IsStrip(r, s, P) ==
    \E lo \in 1..(Len(s) + 1), hi \in 0..Len(s) :
        /\ r = SubSeq(s, lo, hi)
        /\ \A k \in 1..Len(s) : (k < lo \/ k > hi) => s[k] \in P
        /\ r # <<>> => r[1] \notin P /\ r[Len(r)] \notin P

\* r is s without one backtick at its start, if there is one, and without one
\* at its end, if one is left there
IsOneLayerStrip(r, s) ==
    LET a == IF s # <<>> /\ s[1] = BACKTICK THEN SubSeq(s, 2, Len(s)) ELSE s
    IN  r = IF a # <<>> /\ a[Len(a)] = BACKTICK THEN SubSeq(a, 1, Len(a) - 1) ELSE a

\* The answers that confirm: y or yes, in any case
AffirmativeAnswers ==
    {<<a>> : a \in {"y", "Y"}}
    \cup {<<a, b, c>> : a \in {"y", "Y"}, b \in {"e", "E"}, c \in {"s", "S"}}

IsAffirmative(line) == \E r \in AffirmativeAnswers : IsStrip(r, line, {SPACE, TAB, NEWLINE, CR})

AllBlank(d) == \A i \in 1..Len(d) : IsWhitespace(d[i])

IsObj(x) == x.t = "object"

\* The messages under "output": the elements of a list, or the single object
OutputMessages(v) ==
    IF ~IsObj(v) THEN <<>>
    ELSE IF v.f.output.t = "array" THEN v.f.output.e
    ELSE IF v.f.output.t = "object" THEN <<v.f.output>>
    ELSE <<>>

\* The positions <<i, j>> of the content parts that carry a string "text"
PartHits(m) ==
    IF IsObj(m) /\ m.f.content.t = "array"
    THEN {j \in 1..Len(m.f.content.e) :
            IsObj(m.f.content.e[j]) /\ m.f.content.e[j].f.text.t = "string"}
    ELSE {}

OutputHits(v) ==
    UNION {{<<i, j>> : j \in PartHits(OutputMessages(v)[i])} :
              i \in 1..Len(OutputMessages(v))}

TextAtHit(v, p) == OutputMessages(v)[p[1]].f.content.e[p[2]].f.text.s

FirstHit(v) ==
    CHOOSE p \in OutputHits(v) :
        \A q \in OutputHits(v) : p[1] < q[1] \/ (p[1] = q[1] /\ p[2] <= q[2])

OutputTextOf(v) == IF IsObj(v) THEN v.f.output_text ELSE Absent

\* The elements of a list of strings with a line feed between neighbours
RECURSIVE LinesOfStrings(_)
LinesOfStrings(e) ==
    IF e = <<>> THEN <<>>
    ELSE IF Len(e) = 1 THEN e[1].s
    ELSE LinesOfStrings(SubSeq(e, 1, Len(e) - 1)) \o <<NEWLINE>> \o e[Len(e)].s

-----------------------------------------------------------------------------
(* Claims *)

\* C1: run_command is called only after confirm_run returned true on an
\* affirmative line; once confirm_run has read any other line, run_command is
\* never called and the run has ended with exit code zero.
C1_ExecutorOnlyAfterConfirmation ==
    /\ execCalls > 0 => decision = "yes" /\ confirmCalls = 1 /\ IsAffirmative(input)
    /\ (decision # "none" /\ ~IsAffirmative(input)) =>
           pc = "done" /\ execCalls = 0 /\ exitCode = 0

C1_Witness ==
    /\ pc = "done"
    /\ input = <<"n", NEWLINE>>
    /\ decision = "no"
    /\ execCalls = 0
    /\ exitCode = 0

\* C2: once the description check has run on a description that is blank,
\* the run has ended with the usage error and a non-zero exit, and the
\* credential was not looked up, no request was sent, no confirmation was asked
\* and no command was run.
C2_BlankDescriptionFailsFirst ==
    (argv.kind = "args" /\ pc \notin {"parse", "check_description"} /\ AllBlank(description)) =>
        /\ pc = "done"
        /\ failure = "usage"
        /\ exitCode # 0
        /\ keyLookups = 0
        /\ httpRequests = 0
        /\ confirmCalls = 0
        /\ execCalls = 0

C2_Witness ==
    /\ pc = "done"
    /\ description = <<SPACE, SPACE, SPACE>>
    /\ failure = "usage"

\* C3 as stated: the run exits with zero exactly when the command ran and its
\* shell succeeded or the user declined.
C3_ZeroOnlyOnSuccessOrDecline ==
    pc = "done" =>
        (exitCode = 0 <=> ((execCalls = 1 /\ status = "success") \/ decision = "no"))

\* C3, amended: the run exits with zero exactly when the command ran and its
\* shell succeeded, or the user declined, or the argument parser printed the
\* help or the version; every fatal condition ends the run at once with a
\* non-zero exit; no stage runs twice, and none runs after a failure.
C3_ExitCode ==
    /\ pc = "done" =>
          (exitCode = 0 <=> \/ execCalls = 1 /\ status = "success"
                            \/ decision = "no"
                            \/ argv.kind \in {"help", "version"})
    /\ failure # "none" => pc = "done" /\ exitCode > 0
    /\ status \in {"spawn_failed", "nonzero"} => failure \in {"spawn", "exit_status"}
    /\ keyLookups <= 1 /\ httpRequests <= 1 /\ confirmCalls <= 1 /\ execCalls <= 1
    /\ failure \in {"arguments", "usage"} => keyLookups = 0
    /\ failure \in {"arguments", "usage", "credential", "client"} => httpRequests = 0
    /\ failure \in {"arguments", "usage", "credential", "client", "transport",
                    "http_status", "body_read", "decoding", "extraction"} =>
          confirmCalls = 0
    /\ failure \notin {"none", "spawn", "exit_status"} => execCalls = 0

C3_Witness ==
    /\ pc = "done"
    /\ execCalls = 1
    /\ status = "success"
    /\ failure = "none"
    /\ exitCode = 0

\* C4: sanitize_command applied to its own result gives that result again.
C4_Idempotent ==
    pc = "sanitized" => resanitized = command_text

\* C5 as stated: the command is the first line without its surrounding
\* whitespace, then without one backtick at each end, then without
\* surrounding whitespace.
C5_OneLayerOfBackticks ==
    pc # "sanitize" =>
        \E t1 \in SubSeqs(FirstLine(raw_text[1])), t2 \in SubSeqs(FirstLine(raw_text[1])) :
            /\ IsStrip(t1, FirstLine(raw_text[1]), {SPACE, TAB, NEWLINE, CR})
            /\ IsOneLayerStrip(t2, t1)
            /\ IsStrip(command_text, t2, {SPACE, TAB, NEWLINE, CR})

\* C5, amended: the command is the first line without its surrounding
\* whitespace, then without every backtick at its start and at its end, then
\* without surrounding whitespace.
C5_AllSurroundingBackticks ==
    pc # "sanitize" =>
        \E t1 \in SubSeqs(FirstLine(raw_text[1])), t2 \in SubSeqs(FirstLine(raw_text[1])) :
            /\ IsStrip(t1, FirstLine(raw_text[1]), {SPACE, TAB, NEWLINE, CR})
            /\ IsStrip(t2, t1, {BACKTICK})
            /\ IsStrip(command_text, t2, {SPACE, TAB, NEWLINE, CR})

C5_Witness ==
    /\ pc # "sanitize"
    /\ raw_text = Some(<<BACKTICK, BACKTICK, "a", BACKTICK>>)
    /\ command_text = <<"a">>

\* C6: the command holds no line feed, and it is the command of the text
\* before the first line feed alone.
C6_FirstLineOnly ==
    pc # "sanitize" =>
        /\ NEWLINE \notin Range(command_text)
        /\ \A k \in 1..Len(raw_text[1]) :
              (raw_text[1][k] = NEWLINE /\ \A m \in 1..(k - 1) : raw_text[1][m] # NEWLINE) =>
                  command_text = sanitize_command(SubSeq(raw_text[1], 1, k - 1))

C6_Witness ==
    /\ pc # "sanitize"
    /\ raw_text = Some(<<"a", NEWLINE, "a", "a">>)
    /\ command_text = <<"a">>

\* C7: a text found under "output" is the result whatever "output_text" holds;
\* the string "output_text" is the result only when "output" yields nothing;
\* the list "output_text" is used only when neither gives a result.
C7_ShapePriority ==
    pc # "extract" =>
        /\ OutputHits(value) # {} =>
              \E p \in OutputHits(value) : raw_text = Some(TextAtHit(value, p))
        /\ (OutputHits(value) = {} /\ OutputTextOf(value).t = "string") =>
              raw_text = Some(OutputTextOf(value).s)
        /\ (OutputHits(value) = {} /\ OutputTextOf(value).t # "string" /\ raw_text # None) =>
              OutputTextOf(value).t = "array"

C7_Witness ==
    /\ pc = "confirm"
    /\ OutputHits(value) # {}
    /\ value.f.output.t = "array"
    /\ OutputTextOf(value) = JString(<<"t">>)
    /\ raw_text = Some(<<"1", "1">>)

\* C8: confirm_run returns true exactly when the line read, without its
\* surrounding whitespace, is y or yes in any case.
C8_AffirmativeOnly ==
    decision # "none" => (decision = "yes" <=> IsAffirmative(input))

C8_Witness ==
    /\ input = <<"Y", "E", "S", NEWLINE>>
    /\ decision = "yes"
    /\ pc = "run"

\* C9: with nothing found under "output" and a list of strings under
\* "output_text", the result is the elements with a line feed between them
\* when that text is not empty, and nothing when it is empty; a document of no
\* known shape gives nothing; a run that got nothing ends with the extraction
\* error and a non-zero exit.
C9_OutputTextList ==
    pc # "extract" =>
        /\ ( /\ OutputHits(value) = {}
             /\ OutputTextOf(value).t = "array"
             /\ \A k \in 1..Len(OutputTextOf(value).e) : OutputTextOf(value).e[k].t = "string" ) =>
              raw_text = IF LinesOfStrings(OutputTextOf(value).e) # <<>>
                         THEN Some(LinesOfStrings(OutputTextOf(value).e))
                         ELSE None
        /\ (OutputHits(value) = {} /\ OutputTextOf(value).t \notin {"string", "array"}) =>
              raw_text = None
        /\ raw_text = None => pc = "done" /\ failure = "extraction" /\ exitCode # 0

C9_Witness ==
    /\ pc = "confirm"
    /\ OutputHits(value) = {}
    /\ OutputTextOf(value) = JArray(<<JString(<<"a">>), JString(<<"b">>)>>)
    /\ raw_text = Some(<<"a", NEWLINE, "b">>)

\* C10 as stated: the text returned from a message is that of the first
\* element of its content list, never that of a later element.
C10_FirstElementOnly ==
    pc # "extract" =>
        \A p \in OutputHits(value) : raw_text = Some(TextAtHit(value, p)) => p[2] = 1

\* C10, amended: the result is the text of the first content element, in the
\* order of the messages and of their content lists, whose "text" is a string;
\* the elements before it carry no string "text".
C10_FirstElementWithText ==
    (pc # "extract" /\ OutputHits(value) # {}) =>
        raw_text = Some(TextAtHit(value, FirstHit(value)))

C10_Witness ==
    /\ pc = "confirm"
    /\ OutputHits(value) = {<<1, 2>>}
    /\ raw_text = Some(<<"1", "2">>)

====
